---- MODULE Spec2Model ----
(***************************************************************************)
(* Store bootstrap of plannrs: lib::db::create_or_get_handle and its       *)
(* caller main.  The store is the SQLite database named by DB_URL; a call  *)
(* checks for it, connects a pool, and in one arm of the match issues the  *)
(* two CREATE TABLE IF NOT EXISTS statements.  Every awaited step carries  *)
(* the ? operator, so it may end the call with an error.                   *)
(***************************************************************************)
EXTENDS Naturals, Integers, Sequences, FiniteSets, TLC

\* ------------------------------------------------------------------ bounds
MaxCalls == 2            \* launches of main per process
MaxRowId == 1            \* row ids 0..MaxRowId may already be in a table

\* --------------------------------------------------------------- constants
AllProcs == {1, 2}       \* operating-system processes running main
SeqProcs == {1}          \* the single expected caller
TableNames == {"Tag", "Plan"}
RowIds == 0 .. MaxRowId
IO == {"ok", "ioerr"}    \* what the storage engine answers to one request

\* the URL as it would be with ?mode=rwc: connecting creates a missing file
CreateIfMissingRwc == TRUE

\* DB_URL = "sqlite://~/.plannrs.db" carries no ?mode=rwc, so the pool
\* options keep create_if_missing = false: connecting never creates a file.
CreateIfMissing == FALSE

NoTable == [n |-> 0, rows |-> {}]
EmptyTable == [n |-> 1, rows |-> {}]

VARIABLES
    dbExists,    \* a database file is present at DB_URL
    tables,      \* per table name: how many structures of it, and its rows
    pc,          \* per process: the statement of create_or_get_handle it is at
    found,       \* per process: what database_exists answered in this call
    db,          \* per process: the call holds a connected pool
    result,      \* per process: what the call returned ("none" while running)
    trace,       \* per process: the steps of the current call with outcomes
    results,     \* per process: how each completed call ended ("ok" or the error)
    calls,       \* per process: number of calls started
    pre,         \* per process: tables as they were when the call started
    initExists   \* dbExists in the initial state

vars == <<dbExists, tables, pc, found, db, result, trace, results, calls,
          pre, initExists>>

\* ----------------------------------------------------------------- helpers
\* line 126: the match scrutinee is the NEGATED existence answer; the arm
\* `true` is the one that prints "Database found..." and only connects.
MatchScrutinee(e) == ~e

\* DROP TABLE followed by CREATE TABLE: the structure is rebuilt empty
CreateTableDropFirst(t) == EmptyTable

\* CREATE TABLE IF NOT EXISTS: a no-op on a table that is already there.
CreateTableIfNotExists(t) == IF t.n = 0 THEN EmptyTable ELSE t

\* SqlitePool::connect(DB_URL): an I/O failure, or no file and no permission
\* to create one, is an error.
ConnectOutcome(exists, io) ==
    IF io = "ioerr" THEN "ioerr"
    ELSE IF exists \/ CreateIfMissing THEN "ok"
    ELSE "nofile"

Step(s, o) == [step |-> s, outcome |-> o]

\* the ? operator on an Err: the call returns the error, the pool (if any)
\* is dropped, nothing else runs.
Propagate(p, s, o) ==
    /\ pc' = [pc EXCEPT ![p] = "done"]
    /\ result' = [result EXCEPT ![p] = "err"]
    /\ db' = [db EXCEPT ![p] = FALSE]
    /\ trace' = [trace EXCEPT ![p] = Append(@, Step(s, o))]
    /\ results' = [results EXCEPT ![p] = Append(@, o)]

\* Ok(Box::new(pool)): the call returns the handle.
ReturnHandle(p, s) ==
    /\ pc' = [pc EXCEPT ![p] = "done"]
    /\ result' = [result EXCEPT ![p] = "ok"]
    /\ db' = [db EXCEPT ![p] = TRUE]
    /\ trace' = [trace EXCEPT ![p] = Append(@, Step(s, "ok"))]
    /\ results' = [results EXCEPT ![p] = Append(@, "ok")]

\* ------------------------------------------------------------------- Init
\* The location is either absent, or holds a database with any subset of the
\* two tables, each with any rows.
TableStates == {NoTable} \cup {[n |-> 1, rows |-> r] : r \in SUBSET RowIds}

Init ==
    /\ dbExists \in BOOLEAN
    /\ tables \in [TableNames -> TableStates]
    /\ (~dbExists => tables = [t \in TableNames |-> NoTable])
    /\ pc = [p \in AllProcs |-> "idle"]
    /\ found = [p \in AllProcs |-> "unknown"]
    /\ db = [p \in AllProcs |-> FALSE]
    /\ result = [p \in AllProcs |-> "none"]
    /\ trace = [p \in AllProcs |-> <<>>]
    /\ results = [p \in AllProcs |-> <<>>]
    /\ calls = [p \in AllProcs |-> 0]
    /\ pre = [p \in AllProcs |-> tables]
    /\ initExists = dbExists

\* ---------------------------------------------------------------- actions
\* main: a process start calls create_or_get_handle once.
main(p) ==
    /\ pc[p] \in {"idle", "done"}
    /\ calls[p] < MaxCalls
    /\ calls' = [calls EXCEPT ![p] = @ + 1]
    /\ pc' = [pc EXCEPT ![p] = "exists"]
    /\ found' = [found EXCEPT ![p] = "unknown"]
    /\ db' = [db EXCEPT ![p] = FALSE]
    /\ result' = [result EXCEPT ![p] = "none"]
    /\ trace' = [trace EXCEPT ![p] = <<>>]
    /\ pre' = [pre EXCEPT ![p] = tables]
    /\ UNCHANGED <<dbExists, tables, results, initExists>>

\* line 126: Sqlite::database_exists(DB_URL).await? and the match on it.
database_exists(p) ==
    /\ pc[p] = "exists"
    /\ \E io \in IO :
         IF io = "ioerr"
         THEN /\ Propagate(p, "exists", "ioerr")
              /\ UNCHANGED found
         ELSE /\ found' = [found EXCEPT ![p] = IF dbExists THEN "yes" ELSE "no"]
              /\ pc' = [pc EXCEPT ![p] =
                          IF MatchScrutinee(dbExists) THEN "connect_found"
                                                      ELSE "connect_new"]
              /\ trace' = [trace EXCEPT ![p] = Append(@, Step("exists", "ok"))]
              /\ UNCHANGED <<result, db, results>>
    /\ UNCHANGED <<dbExists, tables, calls, pre, initExists>>

\* line 129: arm `true`: connect and return the pool at once.
connect_found(p) ==
    /\ pc[p] = "connect_found"
    /\ \E io \in IO :
         LET o == ConnectOutcome(dbExists, io) IN
         IF o # "ok"
         THEN /\ Propagate(p, "connect", o)
              /\ UNCHANGED dbExists
         ELSE /\ ReturnHandle(p, "connect")
              /\ dbExists' = TRUE
    /\ UNCHANGED <<tables, found, calls, pre, initExists>>

\* connect_new with the Plan statement issued right after connecting
connect_new_plan_first(p) ==
    /\ pc[p] = "connect_new"
    /\ \E io \in IO :
         LET o == ConnectOutcome(dbExists, io) IN
         IF o # "ok"
         THEN /\ Propagate(p, "connect", o)
              /\ UNCHANGED dbExists
         ELSE /\ pc' = [pc EXCEPT ![p] = "plan"]
              /\ db' = [db EXCEPT ![p] = TRUE]
              /\ trace' = [trace EXCEPT ![p] = Append(@, Step("connect", "ok"))]
              /\ dbExists' = TRUE
              /\ UNCHANGED <<result, results>>
    /\ UNCHANGED <<tables, found, calls, pre, initExists>>

\* line 138: arm `false`: connect, then go on to the schema statements.
connect_new(p) ==
    /\ pc[p] = "connect_new"
    /\ \E io \in IO :
         LET o == ConnectOutcome(dbExists, io) IN
         IF o # "ok"
         THEN /\ Propagate(p, "connect", o)
              /\ UNCHANGED dbExists
         ELSE /\ pc' = [pc EXCEPT ![p] = "tag"]
              /\ db' = [db EXCEPT ![p] = TRUE]
              /\ trace' = [trace EXCEPT ![p] = Append(@, Step("connect", "ok"))]
              /\ dbExists' = TRUE
              /\ UNCHANGED <<result, results>>
    /\ UNCHANGED <<tables, found, calls, pre, initExists>>

\* tag_result with the Tag statement left out
tag_result_skipped(p) ==
    /\ pc[p] = "tag"
    /\ pc' = [pc EXCEPT ![p] = "plan"]
    /\ trace' = [trace EXCEPT ![p] = Append(@, Step("tag", "ok"))]
    /\ UNCHANGED <<dbExists, tables, found, db, result, results, calls, pre,
                   initExists>>

\* tag_result without the ? operator: an error is printed and the call goes on
tag_result_unchecked(p) ==
    /\ pc[p] = "tag"
    /\ \E io \in IO :
         /\ tables' = IF io = "ioerr" THEN tables
                      ELSE [tables EXCEPT !["Tag"] = CreateTableIfNotExists(@)]
         /\ pc' = [pc EXCEPT ![p] = "plan"]
         /\ trace' = [trace EXCEPT ![p] = Append(@, Step("tag", io))]
    /\ UNCHANGED <<dbExists, found, db, result, results, calls, pre, initExists>>

\* lines 141-151: CREATE TABLE IF NOT EXISTS Tag ... .execute(&db).await?
tag_result(p) ==
    /\ pc[p] = "tag"
    /\ \E io \in IO :
         IF io = "ioerr"
         THEN /\ Propagate(p, "tag", "ioerr")
              /\ UNCHANGED tables
         ELSE /\ tables' = [tables EXCEPT !["Tag"] = CreateTableIfNotExists(@)]
              /\ pc' = [pc EXCEPT ![p] = "plan"]
              /\ trace' = [trace EXCEPT ![p] = Append(@, Step("tag", "ok"))]
              /\ UNCHANGED <<result, db, results>>
    /\ UNCHANGED <<dbExists, found, calls, pre, initExists>>

\* plan_result that undoes the Tag statement when the Plan statement fails
plan_result_rollback(p) ==
    /\ pc[p] = "plan"
    /\ \E io \in IO :
         IF io = "ioerr"
         THEN /\ Propagate(p, "plan", "ioerr")
              /\ tables' = [tables EXCEPT !["Tag"] = pre[p]["Tag"]]
         ELSE /\ tables' = [tables EXCEPT !["Plan"] = CreateTableIfNotExists(@)]
              /\ ReturnHandle(p, "plan")
    /\ UNCHANGED <<dbExists, found, calls, pre, initExists>>

\* lines 154-173: CREATE TABLE IF NOT EXISTS Plan ... .execute(&db).await?
\* and, on success, Ok(Box::new(db)).
plan_result(p) ==
    /\ pc[p] = "plan"
    /\ \E io \in IO :
         IF io = "ioerr"
         THEN /\ Propagate(p, "plan", "ioerr")
              /\ UNCHANGED tables
         ELSE /\ tables' = [tables EXCEPT !["Plan"] = CreateTableIfNotExists(@)]
              /\ ReturnHandle(p, "plan")
    /\ UNCHANGED <<dbExists, found, calls, pre, initExists>>

create_or_get_handle(p) ==
    \/ database_exists(p)
    \/ connect_found(p)
    \/ connect_new(p)
    \/ tag_result(p)
    \/ plan_result(p)

\* ---------------------------------------------------------- specifications
\* one caller at process startup, possibly launched again later
Next == \E p \in SeqProcs : main(p) \/ create_or_get_handle(p)

Spec == Init /\ [][Next]_vars

\* two processes launched against the same location
NextConc == \E p \in AllProcs : main(p) \/ create_or_get_handle(p)

SpecConc == Init /\ [][NextConc]_vars

TypeOK ==
    /\ dbExists \in BOOLEAN
    /\ \A t \in TableNames : tables[t].n \in Nat /\ tables[t].rows \subseteq RowIds
    /\ \A p \in AllProcs :
         /\ pc[p] \in {"idle", "exists", "connect_found", "connect_new",
                       "tag", "plan", "done"}
         /\ found[p] \in {"unknown", "yes", "no"}
         /\ result[p] \in {"none", "ok", "err"}
         /\ calls[p] \in 0 .. MaxCalls

\* ------------------------------------------------------- claim vocabulary
StepsOf(p) == [i \in 1 .. Len(trace[p]) |-> trace[p][i].step]
NoFault(p) == \A i \in 1 .. Len(trace[p]) : trace[p][i].outcome # "ioerr"
NoFaultEver(p) == \A i \in 1 .. Len(results[p]) : results[p][i] # "ioerr"
Present(t) == tables[t].n >= 1
BothPresent == Present("Tag") /\ Present("Plan")
ExactlyOneEach == tables["Tag"].n = 1 /\ tables["Plan"].n = 1
IsPrefix(s, t) == Len(s) <= Len(t) /\ \A i \in 1 .. Len(s) : s[i] = t[i]

\* C1: when no store exists at the location and the engine reports no I/O
\* fault, a single call creates the store with both the Tag and the Plan
\* structure and returns a handle without error.
C1_FreshBootstrapCreates ==
    \A p \in SeqProcs :
        (~initExists /\ calls[p] = 1 /\ pc[p] = "done" /\ NoFault(p))
        => (result[p] = "ok" /\ dbExists /\ ExactlyOneEach)

\* C2: two calls in sequence against an initially absent location, with no
\* I/O fault, both succeed and leave exactly one Tag and one Plan structure.
C2_IdempotentBootstrap ==
    \A p \in SeqProcs :
        (~initExists /\ calls[p] = 2 /\ pc[p] = "done" /\ NoFaultEver(p))
        => (results[p] = <<"ok", "ok">> /\ ExactlyOneEach)

\* C3: whatever the prior state of the location and whatever calls came
\* before, a call that returned a handle left a store holding both the Tag
\* and the Plan structure.
C3_HandleImpliesSchema ==
    \A p \in SeqProcs : result[p] = "ok" => (dbExists /\ BothPresent)

C3_Witness ==
    /\ result[1] = "ok"
    /\ calls[1] = 2
    /\ results[1][1] # "ok"
    /\ pre[1]["Plan"].n = 0
    /\ BothPresent

\* C4: when the existence check reports that the store exists, the call only
\* connects and returns the handle: no schema statement runs and the set of
\* structures is as it was before the call.
C4_ExistingStoreOnlyOpened ==
    \A p \in SeqProcs :
        (pc[p] = "done" /\ found[p] = "yes" /\ NoFault(p))
        => /\ result[p] = "ok"
           /\ StepsOf(p) = <<"exists", "connect">>
           /\ tables = pre[p]

\* C5: the first failing step ends the call: it is the last step run, the
\* call returns an error and no handle, and no step is run twice.
C5_FailFast ==
    \A p \in SeqProcs :
        /\ \A i \in 1 .. Len(trace[p]) :
             trace[p][i].outcome # "ok"
             => (i = Len(trace[p]) /\ pc[p] = "done" /\ result[p] = "err"
                 /\ ~db[p])
        /\ \A i, j \in 1 .. Len(trace[p]) :
             i # j => trace[p][i].step # trace[p][j].step
        /\ result[p] = "err"
             => (Len(trace[p]) > 0 /\ trace[p][Len(trace[p])].outcome # "ok")

C5_Witness ==
    /\ pc[1] = "done"
    /\ result[1] = "err"
    /\ ~db[1]
    /\ StepsOf(1) = <<"exists", "connect", "tag">>
    /\ trace[1][3].outcome = "ioerr"

\* C6: no step of a call, successful or failed, changes the rows of the Tag
\* table or of the Plan table.
C6_RowsUntouched ==
    [][\A t \in TableNames : tables'[t].rows = tables[t].rows]_vars

C6_Witness ==
    /\ pc[1] = "done"
    /\ result[1] = "ok"
    /\ StepsOf(1) = <<"exists", "connect", "tag", "plan">>
    /\ tables["Tag"].rows # {}
    /\ tables["Plan"].rows # {}

\* C7: the steps of a call run in the order existence check, connect, Tag
\* creation, Plan creation, each after the one before it succeeded, and no
\* step brings the Plan structure into a store without the Tag structure.
C7_StepOrder ==
    \A p \in SeqProcs :
        /\ IsPrefix(StepsOf(p), <<"exists", "connect", "tag", "plan">>)
        /\ \A i \in 1 .. Len(trace[p]) - 1 : trace[p][i].outcome = "ok"

C7_StrictOrder ==
    [][/\ C7_StepOrder'
       /\ (~Present("Plan") /\ Present("Plan")') => Present("Tag")']_vars

C7_Witness ==
    /\ pc[1] = "done"
    /\ result[1] = "ok"
    /\ StepsOf(1) = <<"exists", "connect", "tag", "plan">>
    /\ pre[1]["Tag"].n = 0
    /\ pre[1]["Plan"].n = 0
    /\ BothPresent

\* C9: when the Tag statement succeeded and the Plan statement then failed,
\* the call returned an error and no handle, and the store with its Tag
\* structure is still in place.
C9_NoRollback ==
    \A p \in SeqProcs :
        ( /\ pc[p] = "done"
          /\ Len(trace[p]) = 4
          /\ trace[p][3] = Step("tag", "ok")
          /\ trace[p][4].step = "plan"
          /\ trace[p][4].outcome # "ok" )
        => /\ result[p] = "err"
           /\ ~db[p]
           /\ dbExists
           /\ Present("Tag")
           /\ tables["Plan"] = pre[p]["Plan"]

C9_Witness ==
    /\ pc[1] = "done"
    /\ result[1] = "err"
    /\ trace[1][Len(trace[1])] = Step("plan", "ioerr")
    /\ pre[1]["Tag"].n = 0
    /\ dbExists
    /\ Present("Tag")
    /\ ~Present("Plan")

====
